---- MODULE Spec2Model ----
(***************************************************************************)
(* Model of get_supported_version_csi-sidecar.py (kubernetes-csi).         *)
(*                                                                         *)
(* Strings are tuples of one-character strings, so that the regular        *)
(* expressions of the script are matched character by character.  Time is  *)
(* counted in days: a datetime is an integer day number, a timedelta is a   *)
(* number of days, and the text `YYYY-MM-DDTHH:MM:SSZ` of a day d is        *)
(* written as the decimal digits of d followed by "Z".                      *)
(***************************************************************************)
EXTENDS Integers, Sequences, FiniteSets, TLC

VARIABLES
    e_versions,   \* evaluator harness: the grouped mapping given to the evaluator
    e_now,        \* evaluator harness: datetime.datetime.now()
    e_result,     \* evaluator harness: what end_of_life_grouped_versions did
    e_pc,         \* evaluator harness: "input" | "done"
    g_output,     \* grouper harness: the text returned by `gh release list`
    g_result,     \* grouper harness: what the grouping loop did
    g_pc,         \* grouper harness: "input" | "done"
    args,         \* driver: parsed command line [repos, display, doc]
    gh,           \* driver: shutil.which('gh') finds the tool
    now,          \* driver: datetime.datetime.now()
    listResp,     \* driver: repo -> outcome of `gh release -R repo list`
    viewResp,     \* driver: repo -> outcome of `gh release -R repo view tag`
    pc,           \* driver, per copy: position in main()
    ri,           \* driver, per copy: index of `repo` in args.repos
    versions,     \* driver, per copy: local `versions` of main()
    eol_versions, \* driver, per copy: local `eol_versions` of main()
    vi,           \* driver, per copy: index of `version` in the --doc loop
    calls,        \* driver, per copy: external invocations made so far
    out,          \* driver, per copy: lines written to standard output
    exc,          \* driver, per copy: the uncaught exception, "" when none
    failed        \* driver, per copy: index of the repository whose step raised, 0 when none

evars == <<e_versions, e_now, e_result, e_pc>>
gvars == <<g_output, g_result, g_pc>>
world == <<args, gh, now, listResp, viewResp>>
dvars == <<pc, ri, versions, eol_versions, vi, calls, out, exc, failed>>
vars  == <<evars, gvars, world, dvars>>

-----------------------------------------------------------------------------
(* Characters, decimal numbers                                             *)

Digit == {"0", "1", "2", "3", "4", "5", "6", "7", "8", "9"}

DigitVal(c) ==
    CASE c = "0" -> 0 [] c = "1" -> 1 [] c = "2" -> 2 [] c = "3" -> 3
      [] c = "4" -> 4 [] c = "5" -> 5 [] c = "6" -> 6 [] c = "7" -> 7
      [] c = "8" -> 8 [] c = "9" -> 9

DigitChar(n) ==
    CASE n = 0 -> "0" [] n = 1 -> "1" [] n = 2 -> "2" [] n = 3 -> "3"
      [] n = 4 -> "4" [] n = 5 -> "5" [] n = 6 -> "6" [] n = 7 -> "7"
      [] n = 8 -> "8" [] n = 9 -> "9"

\* str(n) for a natural number n
RECURSIVE ToDigits(_)
ToDigits(n) ==
    IF n < 10 THEN <<DigitChar(n)>>
    ELSE Append(ToDigits(n \div 10), DigitChar(n % 10))

\* int(s[i..j]) for a run of digits
RECURSIVE ToInt(_, _, _)
ToInt(s, i, j) ==
    IF j < i THEN 0 ELSE 10 * ToInt(s, i, j - 1) + DigitVal(s[j])

\* the index of the last character of the longest run of digits of s that
\* starts at i (i - 1 when s[i] is no digit): what a greedy \d+ consumes
RECURSIVE DigitsEnd(_, _)
DigitsEnd(s, i) ==
    IF i <= Len(s) /\ s[i] \in Digit THEN DigitsEnd(s, i + 1) ELSE i - 1

None == <<>>

-----------------------------------------------------------------------------
(* parse_version                                                           *)

\* re.match(r"v(\d+)\.(\d+)\.(\d+)", version): anchored at the start only
parse_version(version) ==
    LET n  == Len(version)
        e1 == DigitsEnd(version, 2)
        e2 == DigitsEnd(version, e1 + 2)
        e3 == DigitsEnd(version, e2 + 2)
    IN  IF /\ n >= 1 /\ version[1] = "v"
           /\ e1 >= 2
           /\ e1 + 1 <= n /\ version[e1 + 1] = "."
           /\ e2 >= e1 + 2
           /\ e2 + 1 <= n /\ version[e2 + 1] = "."
           /\ e3 >= e2 + 2
        THEN <<ToInt(version, 2, e1), ToInt(version, e1 + 2, e2),
               ToInt(version, e2 + 2, e3)>>
        ELSE None

-----------------------------------------------------------------------------
(* end_of_life_grouped_versions                                            *)

one_year     == 365
three_months == 90

\* lexicographic order of two decimal texts, character by character
RECURSIVE StrLess(_, _)
StrLess(s, t) ==
    IF s = <<>> THEN t # <<>>
    ELSE IF t = <<>> THEN FALSE
    ELSE IF s[1] # t[1] THEN DigitVal(s[1]) < DigitVal(t[1])
    ELSE StrLess(Tail(s), Tail(t))

\* the keys compared as the texts of the tag, not as integers
TupleLessAsText(a, b) ==
    \/ StrLess(ToDigits(a[1]), ToDigits(b[1]))
    \/ a[1] = b[1] /\ StrLess(ToDigits(a[2]), ToDigits(b[2]))

\* Python's order of two (major, minor) tuples of integers
TupleLess(a, b) == a[1] < b[1] \/ (a[1] = b[1] /\ a[2] < b[2])

\* sorted(versions.items(), key=lambda x: x[0], reverse=True), for `keys` of it
RECURSIVE SortedItems(_, _)
SortedItems(vs, keys) ==
    IF keys = {} THEN <<>>
    ELSE LET m == CHOOSE k \in keys : \A o \in keys \ {k} : TupleLess(o, k)
         IN  << <<m, vs[m]>> >> \o SortedItems(vs, keys \ {m})

LatestEntryFirst(latest) == latest[2][1]

\* latest[1][-1]
LatestEntry(latest) == latest[2][Len(latest[2])]

InFirstYearWrongWindow(first_release, t) == t - first_release[2] < three_months

\* now - first_release[1] < one_year
InFirstYear(first_release, t) == t - first_release[2] < one_year

HasRecentPatchInclusive(last_release, t) == t - last_release[2] <= three_months

\* now - last_release[1] < three_months
HasRecentPatch(last_release, t) == t - last_release[2] < three_months

\* the for loop over the groups that remain after the pop
RECURSIVE EolLoop(_, _, _, _)
EolLoop(list, i, supported_versions, t) ==
    IF i > Len(list) THEN supported_versions
    ELSE LET v             == list[i]
             first_release == v[2][Len(v[2])]
             last_release  == v[2][1]
         IN  EolLoop(list, i + 1,
                     IF InFirstYear(first_release, t)
                     THEN Append(supported_versions, last_release)
                     ELSE IF HasRecentPatch(last_release, t)
                     THEN Append(supported_versions, last_release)
                     ELSE supported_versions,
                     t)

EolNoRaise(vs, t) == [exc |-> "", value |-> <<>>]

\* sorted_versions_list.pop(0) of an empty list raises IndexError
PopEmpty(vs, t) == [exc |-> "IndexError", value |-> <<>>]

end_of_life_grouped_versions(vs, t) ==
    LET sorted_versions_list == SortedItems(vs, DOMAIN vs)
    IN  IF Len(sorted_versions_list) = 0 THEN PopEmpty(vs, t)
        ELSE LET latest == sorted_versions_list[1]
             IN  [exc   |-> "",
                  value |-> EolLoop(Tail(sorted_versions_list), 1,
                                    <<LatestEntry(latest)>>, t)]

-----------------------------------------------------------------------------
(* get_versions_from_releases: the parsing of the listing text             *)

Whitespace == {" ", "\t", "\n"}

RECURSIVE LStrip(_)
LStrip(s) == IF s # <<>> /\ s[1] \in Whitespace THEN LStrip(Tail(s)) ELSE s

RECURSIVE RStrip(_)
RStrip(s) ==
    IF s # <<>> /\ s[Len(s)] \in Whitespace THEN RStrip(SubSeq(s, 1, Len(s) - 1)) ELSE s

\* str.strip()
Strip(s) == RStrip(LStrip(s))

\* str.split(sep) for a one-character separator: '' splits into ['']
RECURSIVE Split(_, _)
Split(s, sep) ==
    IF \A i \in DOMAIN s : s[i] # sep THEN <<s>>
    ELSE LET i == CHOOSE j \in DOMAIN s : s[j] = sep /\ \A h \in 1..(j - 1) : s[h] # sep
         IN  <<SubSeq(s, 1, i - 1)>> \o Split(SubSeq(s, i + 1, Len(s)), sep)

\* datetime.datetime.strptime(text, '%Y-%m-%dT%H:%M:%SZ'): the whole text has
\* to match the format, anything else raises ValueError
strptime(text) ==
    LET e == DigitsEnd(text, 1)
    IN  IF e >= 1 /\ Len(text) = e + 1 /\ text[e + 1] = "Z"
        THEN [exc |-> "", value |-> ToInt(text, 1, e)]
        ELSE [exc |-> "ValueError", value |-> 0]

GroupPrepend(vs, key, entry) ==
    IF key \in DOMAIN vs THEN [vs EXCEPT ![key] = <<entry>> \o @]
    ELSE (key :> <<entry>>) @@ vs

\* versions[(major, minor)].append((version, published)) on a defaultdict
GroupAppend(vs, key, entry) ==
    IF key \in DOMAIN vs THEN [vs EXCEPT ![key] = Append(@, entry)]
    ELSE (key :> <<entry>>) @@ vs

\* the for loop over the lines of the listing
RECURSIVE GroupLoop(_, _, _)
GroupLoop(lines, i, vs) ==
    IF i > Len(lines) THEN [exc |-> "", value |-> vs]
    ELSE LET parts          == Split(lines[i], "\t")
             version        == parts[1]
             parsed_version == parse_version(version)
         IN  IF parsed_version = None THEN GroupLoop(lines, i + 1, vs)
             ELSE IF Len(parts) < 4 THEN [exc |-> "IndexError", value |-> <<>>]
             ELSE LET published == strptime(parts[4])
                  IN  IF published.exc # "" THEN [exc |-> published.exc, value |-> <<>>]
                      ELSE GroupLoop(lines, i + 1,
                                     GroupAppend(vs,
                                                 <<parsed_version[1], parsed_version[2]>>,
                                                 <<version, published.value>>))

\* get_versions_from_releases once `gh release list` has returned `output`
GroupReleases(output) == GroupLoop(Split(Strip(output), "\n"), 1, <<>>)

-----------------------------------------------------------------------------
(* get_release_docker_image                                                *)

Letter ==
    {"a", "b", "c", "d", "e", "f", "g", "h", "i", "j", "k", "l", "m",
     "n", "o", "p", "q", "r", "s", "t", "u", "v", "w", "x", "y", "z",
     "A", "B", "C", "D", "E", "F", "G", "H", "I", "J", "K", "L", "M",
     "N", "O", "P", "Q", "R", "S", "T", "U", "V", "W", "X", "Y", "Z"}

\* the class [\.\/\-\:\w\d]
ImageChar == Letter \cup Digit \cup {"_", ".", "/", "-", ":"}

DockerPull == <<"d", "o", "c", "k", "e", "r", " ", "p", "u", "l", "l", " ">>

OccursAt(s, i, needle) ==
    /\ i + Len(needle) - 1 <= Len(s)
    /\ SubSeq(s, i, i + Len(needle) - 1) = needle

RECURSIVE ClassEnd(_, _)
ClassEnd(s, i) ==
    IF i <= Len(s) /\ s[i] \in ImageChar THEN ClassEnd(s, i + 1) ELSE i - 1

\* re.search(r"docker pull ([\.\/\-\:\w\d]*)", output), then
\* match.group(1) if match else ''
ExtractImage(output) ==
    LET hits == {i \in DOMAIN output : OccursAt(output, i, DockerPull)}
    IN  IF hits = {} THEN <<>>
        ELSE LET i     == CHOOSE h \in hits : \A o \in hits : h <= o
                 start == i + Len(DockerPull)
             IN  SubSeq(output, start, ClassEnd(output, start))

-----------------------------------------------------------------------------
(* main: the two copies of the script run on the same command line, the    *)
(* same clock and the same answers of the gh tool                          *)

Copies == {"contrib", "release_tools"}

\* an uncaught exception ends the interpreter
Swallowed(i, n) == IF i < n THEN [pc |-> "list", ri |-> i + 1] ELSE [pc |-> "exit0", ri |-> i]

\* main has no try/except: whatever a step of repository i raises ends the run
Propagate(i, n) == [pc |-> "crashed", ri |-> i]

NoExit(found) == "list"

\* check_gh_command: exit(1) when shutil.which('gh') finds nothing
AfterCheck(found) == IF found THEN "list" ELSE "exit1"

NoTag == <<>>

Call(op, repo, tag, i) == [op |-> op, repo |-> repo, tag |-> tag, idx |-> i]

\* a printed line: what it is, and the values formatted into it
Printed(kind, repo, tag, day, image, i) ==
    [kind |-> kind, repo |-> repo, tag |-> tag, day |-> day, image |-> image, idx |-> i]

Repo(c) == args.repos[ri[c]]

\* the step of copy c raises: nothing else of main runs
Raise(c, kind) ==
    LET next == Propagate(ri[c], Len(args.repos))
    IN  /\ pc' = [pc EXCEPT ![c] = next.pc]
        /\ ri' = [ri EXCEPT ![c] = next.ri]
        /\ exc' = [exc EXCEPT ![c] = kind]
        /\ failed' = [failed EXCEPT ![c] = ri[c]]

\* check_gh_command()
CheckGhCommand(c) ==
    /\ pc[c] = "check_gh"
    /\ calls' = [calls EXCEPT ![c] = Append(@, Call("which", "gh", NoTag, 0))]
    /\ out' = [out EXCEPT ![c] =
                  IF gh THEN @
                  ELSE @ \o <<Printed("error_not_in_path", "", NoTag, 0, <<>>, 0),
                              Printed("error_please_install", "", NoTag, 0, <<>>, 0)>>]
    /\ pc' = [pc EXCEPT ![c] = AfterCheck(gh)]
    /\ ri' = [ri EXCEPT ![c] = IF AfterCheck(gh) = "list" THEN 1 ELSE 0]
    /\ UNCHANGED <<versions, eol_versions, vi, exc, failed, evars, gvars, world>>

\* versions = get_versions_from_releases(repo)
GetVersionsFromReleases(c) ==
    /\ pc[c] = "list"
    /\ calls' = [calls EXCEPT ![c] = Append(@, Call("list", Repo(c), NoTag, ri[c]))]
    /\ LET resp == listResp[Repo(c)]
           r    == GroupReleases(resp.text)
       IN  IF ~resp.ok
           THEN Raise(c, "CalledProcessError") /\ UNCHANGED versions
           ELSE IF r.exc # ""
           THEN Raise(c, r.exc) /\ UNCHANGED versions
           ELSE /\ versions' = [versions EXCEPT ![c] = r.value]
                /\ pc' = [pc EXCEPT ![c] = "eol"]
                /\ UNCHANGED <<ri, exc, failed>>
    /\ UNCHANGED <<eol_versions, vi, out, evars, gvars, world>>

\* eol_versions = end_of_life_grouped_versions(versions)
EndOfLife(c) ==
    /\ pc[c] = "eol"
    /\ LET r == end_of_life_grouped_versions(versions[c], now)
       IN  IF r.exc # ""
           THEN Raise(c, r.exc) /\ UNCHANGED eol_versions
           ELSE /\ eol_versions' = [eol_versions EXCEPT ![c] = r.value]
                /\ pc' = [pc EXCEPT ![c] =
                             IF args.display THEN "display"
                             ELSE IF args.doc THEN "doc_header" ELSE "end_repo"]
                /\ UNCHANGED <<ri, exc, failed>>
    /\ UNCHANGED <<versions, vi, calls, out, evars, gvars, world>>

\* if args.display: the header, then a line per supported version
Display(c) ==
    /\ pc[c] = "display"
    /\ out' = [out EXCEPT ![c] =
                  @ \o <<Printed("supported_versions_of", Repo(c), NoTag, 0, <<>>, ri[c])>>
                    \o [j \in 1..Len(eol_versions[c]) |->
                           Printed("version", "", eol_versions[c][j][1],
                                   eol_versions[c][j][2], <<>>, ri[c])]]
    /\ pc' = [pc EXCEPT ![c] = IF args.doc THEN "doc_header" ELSE "end_repo"]
    /\ UNCHANGED <<ri, versions, eol_versions, vi, calls, exc, failed, evars, gvars, world>>

\* if args.doc: the header of the images
DocHeader(c) ==
    /\ pc[c] = "doc_header"
    /\ out' = [out EXCEPT ![c] =
                  Append(@, Printed("docker_images", "", NoTag, 0, <<>>, ri[c]))]
    /\ pc' = [pc EXCEPT ![c] = IF Len(eol_versions[c]) = 0 THEN "end_repo" ELSE "doc_loop"]
    /\ vi' = [vi EXCEPT ![c] = 1]
    /\ UNCHANGED <<ri, versions, eol_versions, calls, exc, failed, evars, gvars, world>>

\* the first argument of the call of get_release_docker_image: `repo` in the
\* release-tools copy; `args.repo` in the contrib copy, an attribute that the
\* parser (dest='repos') never sets, so that reading it raises AttributeError
RepoArgument(c) ==
    IF c = "contrib" THEN [exc |-> "AttributeError", value |-> ""]
    ELSE [exc |-> "", value |-> Repo(c)]

\* one turn of `for version in eol_versions` under args.doc
DocVersion(c) ==
    /\ pc[c] = "doc_loop"
    /\ LET version == eol_versions[c][vi[c]]
           repo    == RepoArgument(c)
           resp    == viewResp[repo.value]
       IN  IF repo.exc # ""
           THEN Raise(c, repo.exc) /\ UNCHANGED <<calls, out, vi>>
           ELSE /\ calls' = [calls EXCEPT ![c] =
                                Append(@, Call("view", repo.value, version[1], ri[c]))]
                /\ IF ~resp.ok
                   THEN Raise(c, "CalledProcessError") /\ UNCHANGED <<out, vi>>
                   ELSE /\ out' = [out EXCEPT ![c] =
                                      Append(@, Printed("image", "", version[1], 0,
                                                        ExtractImage(resp.text[version[1]]),
                                                        ri[c]))]
                        /\ vi' = [vi EXCEPT ![c] = @ + 1]
                        /\ pc' = [pc EXCEPT ![c] =
                                     IF vi[c] = Len(eol_versions[c])
                                     THEN "end_repo" ELSE "doc_loop"]
                        /\ UNCHANGED <<ri, exc, failed>>
    /\ UNCHANGED <<versions, eol_versions, evars, gvars, world>>

\* print(), then the next repository, or the end of main
EndRepo(c) ==
    /\ pc[c] = "end_repo"
    /\ out' = [out EXCEPT ![c] = Append(@, Printed("blank", "", NoTag, 0, <<>>, ri[c]))]
    /\ IF ri[c] < Len(args.repos)
       THEN pc' = [pc EXCEPT ![c] = "list"] /\ ri' = [ri EXCEPT ![c] = @ + 1]
       ELSE pc' = [pc EXCEPT ![c] = "exit0"] /\ UNCHANGED ri
    /\ UNCHANGED <<versions, eol_versions, vi, calls, exc, failed, evars, gvars, world>>

-----------------------------------------------------------------------------
(* Evaluator harness: end_of_life_grouped_versions on bounded inputs       *)

MaxGroupLen == 2

Keys == {<<3, 9>>, <<3, 10>>, <<2, 11>>}

EvalNows == {400, 401}

\* release days whose ages at day 400 are 89, 364 and 365 days
Timestamps == {400 - (three_months - 1), 400 - (one_year - 1), 400 - one_year}

\* the tag "v<major>.<minor>.<patch>"
MkTag(k, p) ==
    <<"v">> \o ToDigits(k[1]) \o <<".">> \o ToDigits(k[2]) \o <<".">> \o ToDigits(p)

TsSeqs == UNION {[1..n -> Timestamps] : n \in 1..MaxGroupLen}

\* a group lists its patches from the highest to patch 0, each with a day
GroupOf(k, ts) == [i \in 1..Len(ts) |-> <<MkTag(k, Len(ts) - i), ts[i]>>]

NoResult == [exc |-> "", value |-> <<>>]

EIdle == e_versions = <<>> /\ e_now = 0 /\ e_result = NoResult /\ e_pc = "idle"
GIdle == g_output = <<>> /\ g_result = NoResult /\ g_pc = "idle"
DIdle ==
    /\ args = <<>> /\ gh = FALSE /\ now = 0 /\ listResp = <<>> /\ viewResp = <<>>
    /\ pc = <<>> /\ ri = <<>> /\ versions = <<>> /\ eol_versions = <<>>
    /\ vi = <<>> /\ calls = <<>> /\ out = <<>> /\ exc = <<>> /\ failed = <<>>

EvalInit ==
    /\ \E K \in SUBSET Keys : \E ts \in [K -> TsSeqs] :
           e_versions = [k \in K |-> GroupOf(k, ts[k])]
    /\ e_now \in EvalNows
    /\ e_result = NoResult
    /\ e_pc = "input"
    /\ GIdle /\ DIdle

Evaluate ==
    /\ e_pc = "input"
    /\ e_result' = end_of_life_grouped_versions(e_versions, e_now)
    /\ e_pc' = "done"
    /\ UNCHANGED <<e_versions, e_now, gvars, world, dvars>>

EvalNext == Evaluate

EvalSpec == EvalInit /\ [][EvalNext]_vars

Range(s) == {s[i] : i \in DOMAIN s}

\* the (major, minor) line a result entry stands for, read off its tag
KeyOf(entry) == SubSeq(parse_version(entry[1]), 1, 2)

KeyBelow(a, b) == a[1] < b[1] \/ (a[1] = b[1] /\ a[2] < b[2])

NewestKey(vs) == CHOOSE k \in DOMAIN vs : \A o \in DOMAIN vs \ {k} : KeyBelow(o, k)

Oldest(g) == g[Len(g)]
Newest(g) == g[1]
Age(entry, t) == t - entry[2]

EvalDone == e_pc = "done" /\ DOMAIN e_versions # {}

\* C1: for every non-empty grouped input and every now, the result holds
\* exactly one entry of the group with the greatest key, whatever its age;
\* that entry is the group's last-listed element and the result's first one.
C1_NewestAlwaysIncluded ==
    EvalDone =>
        LET k == NewestKey(e_versions)
            r == e_result.value
        IN  /\ e_result.exc = ""
            /\ Len(r) >= 1
            /\ r[1] = Oldest(e_versions[k])
            /\ Cardinality({i \in DOMAIN r : KeyOf(r[i]) = k}) = 1
            /\ \A i \in DOMAIN r : r[i] \in Range(e_versions[k]) => i = 1

C1_Witness ==
    /\ EvalDone
    /\ Cardinality(DOMAIN e_versions) >= 2
    /\ LET g == e_versions[NewestKey(e_versions)]
       IN  /\ Len(g) >= 2
           /\ Age(Oldest(g), e_now) >= one_year
           /\ Age(Newest(g), e_now) >= three_months
           /\ e_result.value[1] = Oldest(g)
           /\ Newest(g) \notin Range(e_result.value)

\* C2 as stated: for every group (any key, any number of releases) whose
\* last-listed release is less than 365 days old, the result holds the
\* group's first-listed release.
C2_AnyYoungGroupNewestIncluded ==
    EvalDone =>
        \A k \in DOMAIN e_versions :
            Age(Oldest(e_versions[k]), e_now) < one_year
                => Newest(e_versions[k]) \in Range(e_result.value)

\* C2 amended: the same for every group other than the newest one, and for
\* the newest one when it lists a single release.
C2_YoungGroupNewestIncluded ==
    EvalDone =>
        \A k \in DOMAIN e_versions :
            /\ k # NewestKey(e_versions) \/ Len(e_versions[k]) = 1
            /\ Age(Oldest(e_versions[k]), e_now) < one_year
            => Newest(e_versions[k]) \in Range(e_result.value)

C2_Witness ==
    /\ EvalDone
    /\ \E k \in DOMAIN e_versions \ {NewestKey(e_versions)} :
           /\ Len(e_versions[k]) >= 2
           /\ Age(Oldest(e_versions[k]), e_now) = one_year - 1
           /\ Age(Newest(e_versions[k]), e_now) >= three_months
           /\ Newest(e_versions[k]) \in Range(e_result.value)
           /\ Oldest(e_versions[k]) \notin Range(e_result.value)

\* C3: for every group other than the newest whose last-listed release is 365
\* days old or more, the result holds the first-listed release exactly when
\* that release is less than 90 days old, and no entry of the group otherwise.
C3_OldGroupNeedsRecentPatch ==
    EvalDone =>
        \A k \in DOMAIN e_versions \ {NewestKey(e_versions)} :
            Age(Oldest(e_versions[k]), e_now) >= one_year =>
                /\ Newest(e_versions[k]) \in Range(e_result.value)
                       <=> Age(Newest(e_versions[k]), e_now) < three_months
                /\ Age(Newest(e_versions[k]), e_now) >= three_months =>
                       /\ Range(e_versions[k]) \cap Range(e_result.value) = {}
                       /\ \A e \in Range(e_result.value) : KeyOf(e) # k

C3_Witness ==
    /\ EvalDone
    /\ \E k, j \in DOMAIN e_versions \ {NewestKey(e_versions)} :
           /\ Age(Oldest(e_versions[k]), e_now) = one_year
           /\ Age(Newest(e_versions[k]), e_now) = three_months
           /\ \A e \in Range(e_result.value) : KeyOf(e) # k
           /\ Len(e_versions[j]) = 1
           /\ Age(Newest(e_versions[j]), e_now) >= one_year
           /\ \A e \in Range(e_result.value) : KeyOf(e) # j

\* C4: the result holds at most one release per (major, minor) group, each
\* element is an element of the input group of its line, and the elements are
\* in strictly descending order of their keys compared as integer pairs.
C4_OnePerGroupDescending ==
    EvalDone =>
        LET r == e_result.value
        IN  /\ \A i \in DOMAIN r :
                   /\ KeyOf(r[i]) \in DOMAIN e_versions
                   /\ r[i] \in Range(e_versions[KeyOf(r[i])])
            /\ \A i, j \in DOMAIN r :
                   i < j => KeyBelow(KeyOf(r[j]), KeyOf(r[i]))

C4_Witness ==
    /\ EvalDone
    /\ Len(e_result.value) = 3
    /\ KeyOf(e_result.value[1]) = <<3, 10>>
    /\ KeyOf(e_result.value[2]) = <<3, 9>>
    /\ KeyOf(e_result.value[3]) = <<2, 11>>

-----------------------------------------------------------------------------
(* Grouper harness: the parsing of bounded listing texts                   *)

MaxLines == 3

\* the text of a day, standing for YYYY-MM-DDTHH:MM:SSZ
Iso(d) == Append(ToDigits(d), "Z")

RECURSIVE Join(_, _)
Join(parts, sep) ==
    IF Len(parts) = 0 THEN <<>>
    ELSE IF Len(parts) = 1 THEN parts[1]
    ELSE parts[1] \o <<sep>> \o Join(Tail(parts), sep)

\* a line of the listing: tab-delimited fields and the newline
Line(fields) == Append(Join(fields, "\t"), "\n")

Title == <<"t">>
Kind  == <<"L">>
Edge  == <<"e", "d", "g", "e">>

ListingLines ==
    { Line(<<MkTag(<<1, 2>>, 1), Title, Kind, Iso(300)>>),
      Line(<<MkTag(<<1, 2>>, 0), Title, Kind, Iso(100)>>),
      Line(<<MkTag(<<1, 10>>, 0), Title, Kind, Iso(350)>>),
      Line(<<MkTag(<<1, 2>>, 0) \o <<"-", "r", "c", "1">>, Title, Kind, Iso(90)>>),
      Line(<<<<"v", "0", "1", ".", "2", ".", "5">>, Title, Kind, Iso(320)>>),
      Line(<<Edge, Title, Kind, Iso(200)>>),
      Line(<<Edge, Title, Kind, <<"x">>>>),
      Line(<<<<"v", "1", ".", "2">>, Title, Kind, Iso(210)>>),
      Line(<<MkTag(<<1, 2>>, 2), Title, Kind, ToDigits(310)>>),
      Line(<<MkTag(<<1, 3>>, 0)>>),
      Line(<<<<>>, MkTag(<<1, 4>>, 0), Kind, Iso(330)>>),
      Line(<<<<>>>>) }

RECURSIVE Concat(_)
Concat(ss) == IF Len(ss) = 0 THEN <<>> ELSE ss[1] \o Concat(Tail(ss))

GroupInit ==
    /\ \E n \in 0..MaxLines : \E ls \in [1..n -> ListingLines] : g_output = Concat(ls)
    /\ g_result = NoResult
    /\ g_pc = "input"
    /\ EIdle /\ DIdle

Group ==
    /\ g_pc = "input"
    /\ g_result' = GroupReleases(g_output)
    /\ g_pc' = "done"
    /\ UNCHANGED <<g_output, evars, world, dvars>>

GroupNext == Group

GroupSpec == GroupInit /\ [][GroupNext]_vars

IsDigits(s) == s # <<>> /\ \A i \in DOMAIN s : s[i] \in Digit

\* the first n characters of tag read v<digits>.<digits>.<digits>, the dots
\* being at i and j
ShapeAt(tag, i, j, n) ==
    /\ 2 < i /\ i + 1 < j /\ j < n /\ n <= Len(tag)
    /\ tag[1] = "v"
    /\ IsDigits(SubSeq(tag, 2, i - 1)) /\ tag[i] = "."
    /\ IsDigits(SubSeq(tag, i + 1, j - 1)) /\ tag[j] = "."
    /\ IsDigits(SubSeq(tag, j + 1, n))

\* the tag is of the form v<major>.<minor>.<patch>
ExactForm(tag) == \E i, j \in DOMAIN tag : ShapeAt(tag, i, j, Len(tag))

\* the tag begins with v<major>.<minor>.<patch>
PrefixForm(tag) == \E i, j, n \in DOMAIN tag : ShapeAt(tag, i, j, n)

\* the (major, minor) integers of such a tag
TagKey(tag) ==
    LET d == CHOOSE p \in (DOMAIN tag) \X (DOMAIN tag) :
                 \E n \in DOMAIN tag : ShapeAt(tag, p[1], p[2], n)
    IN  <<ToInt(tag, 2, d[1] - 1), ToInt(tag, d[1] + 1, d[2] - 1)>>

WellFormedTime(text) ==
    /\ Len(text) >= 2 /\ text[Len(text)] = "Z"
    /\ IsDigits(SubSeq(text, 1, Len(text) - 1))

TimeOf(text) == ToInt(text, 1, Len(text) - 1)

\* the n-th smallest element of a set of indexes
Nth(idx, n) == CHOOSE i \in idx : Cardinality({j \in idx : j < i}) = n - 1

\* the listing lines whose tag has the form Form are kept, in listing order, as
\* (tag, timestamp) in the group of the (major, minor) integers of their tag,
\* every other line is dropped, and only a kept line can raise
PartitionOf(Form(_)) ==
    LET lines  == Split(Strip(g_output), "\n")
        tag(i) == Split(lines[i], "\t")[1]
        time(i) == Split(lines[i], "\t")[4]
        kept   == {i \in DOMAIN lines : Form(tag(i))}
        r      == g_result.value
    IN  g_pc = "done" =>
            IF g_result.exc = ""
            THEN /\ DOMAIN r = {TagKey(tag(i)) : i \in kept}
                 /\ \A k \in DOMAIN r :
                        LET idx == {i \in kept : TagKey(tag(i)) = k}
                        IN  /\ Len(r[k]) = Cardinality(idx)
                            /\ \A n \in 1..Len(r[k]) :
                                   r[k][n] = <<tag(Nth(idx, n)), TimeOf(time(Nth(idx, n)))>>
            ELSE \E i \in kept :
                     \/ Len(Split(lines[i], "\t")) < 4
                     \/ ~WellFormedTime(time(i))

\* C9 as stated: the result is an order-preserving partition of exactly the
\* listing lines whose tag is of the form v<major>.<minor>.<patch>; every other
\* line is dropped without any error and appears in no group.
C9_PartitionOfExactTags == PartitionOf(ExactForm)

\* C9 amended: the same for the lines (of the listing text stripped of
\* surrounding whitespace) whose tag begins with v<major>.<minor>.<patch>,
\* whatever follows the patch digits.
C9_PartitionOfPrefixTags == PartitionOf(PrefixForm)

C9_Witness ==
    /\ g_pc = "done" /\ g_result.exc = ""
    /\ \E k \in DOMAIN g_result.value :
           /\ Len(g_result.value[k]) >= 2
           /\ ExactForm(g_result.value[k][1][1])
           /\ \E i \in DOMAIN g_result.value[k] : ~ExactForm(g_result.value[k][i][1])
    /\ \E l \in Range(Split(Strip(g_output), "\n")) :
           /\ ~PrefixForm(Split(l, "\t")[1])
           /\ Len(Split(l, "\t")) = 4
           /\ ~WellFormedTime(Split(l, "\t")[4])

-----------------------------------------------------------------------------
(* The runs of main on bounded command lines and answers of gh             *)

MaxRepos == 2

Repos == {"a/x", "b/y"}

RepoSeqs == UNION {[1..n -> Repos] : n \in 1..MaxRepos}

Today == 400

\* the answers of gh release -R repo list: a failing call, an empty
\* listing, a listing without any version tag, two minor lines, a version tag
\* with a malformed date
ListResponses ==
    { [ok |-> FALSE, text |-> <<>>],
      [ok |-> TRUE, text |-> <<>>],
      [ok |-> TRUE, text |-> Line(<<Edge, Title, Kind, Iso(Today - 1)>>)],
      [ok |-> TRUE, text |-> Line(<<MkTag(<<1, 1>>, 0), Title, Kind, Iso(Today - 20)>>)
                             \o Line(<<Edge, Title, Kind, Iso(Today - 25)>>)
                             \o Line(<<MkTag(<<1, 0>>, 1), Title, Kind, Iso(Today - 30)>>)
                             \o Line(<<MkTag(<<1, 0>>, 0), Title, Kind, Iso(Today - 390)>>)],
      [ok |-> TRUE, text |-> Line(<<MkTag(<<1, 1>>, 0), Title, Kind, ToDigits(Today)>>)] }

ViewTags == {MkTag(<<1, 1>>, 0), MkTag(<<1, 0>>, 1), MkTag(<<1, 0>>, 0)}

\* stands for the backquote character, which a string of TLA+ cannot hold
Backquote == "'"

Quoted(tag) ==
    <<Backquote>> \o DockerPull \o <<"r", "/", "x", ":">> \o tag \o <<Backquote, "\n">>

\* the answers of gh release -R repo view tag: a failing call, a text with
\* the pull command between backquotes, a text without any pull command
ViewResponses ==
    { [ok |-> FALSE, text |-> [t \in ViewTags |-> <<>>]],
      [ok |-> TRUE, text |-> [t \in ViewTags |-> Quoted(t)]],
      [ok |-> TRUE, text |-> [t \in ViewTags |-> <<"n", "/", "a", "\n">>]] }

Init ==
    /\ args \in {[repos |-> rs, display |-> TRUE, doc |-> d] : rs \in RepoSeqs, d \in BOOLEAN}
    /\ gh \in BOOLEAN
    /\ now = Today
    /\ listResp \in [Repos -> ListResponses]
    /\ viewResp \in [Repos -> ViewResponses]
    /\ pc = [c \in Copies |-> "check_gh"]
    /\ ri = [c \in Copies |-> 0]
    /\ versions = [c \in Copies |-> <<>>]
    /\ eol_versions = [c \in Copies |-> <<>>]
    /\ vi = [c \in Copies |-> 0]
    /\ calls = [c \in Copies |-> <<>>]
    /\ out = [c \in Copies |-> <<>>]
    /\ exc = [c \in Copies |-> ""]
    /\ failed = [c \in Copies |-> 0]
    /\ EIdle /\ GIdle

Terminated(c) == pc[c] \in {"exit0", "exit1", "crashed"}

Next ==
    \E c \in Copies :
        \/ CheckGhCommand(c)
        \/ GetVersionsFromReleases(c)
        \/ EndOfLife(c)
        \/ Display(c)
        \/ DocHeader(c)
        \/ DocVersion(c)
        \/ EndRepo(c)

Spec == Init /\ [][Next]_vars

IsPrefix(s, t) == Len(s) <= Len(t) /\ SubSeq(t, 1, Len(s)) = s

Last(s) == s[Len(s)]

ListingText(repo) == Split(Strip(listResp[repo].text), "\n")

\* the listing of the repository is answered and no line of it has a tag that
\* begins with a version
NoGroupListing(repo) ==
    /\ listResp[repo].ok
    /\ \A l \in Range(ListingText(repo)) : ~PrefixForm(Split(l, "\t")[1])

OfRepo(s, i) == LET T(x) == x.idx = i IN SelectSeq(s, T)
OfKind(s, k) == LET T(x) == x.kind = k IN SelectSeq(s, T)
OfOp(s, o) == LET T(x) == x.op = o IN SelectSeq(s, T)

SupportedOf(repo) ==
    end_of_life_grouped_versions(GroupReleases(listResp[repo].text).value, now).value

\* the repository at index i has been left by the loop of copy c
Finished(c, i) == i < ri[c] \/ (i = ri[c] /\ pc[c] \in {"end_repo", "exit0"})

DocInvokesView(c) ==
    /\ \A i \in 1..ri[c] :
           LET repo     == args.repos[i]
               S        == SupportedOf(repo)
               expCalls == [j \in 1..Len(S) |-> Call("view", repo, S[j][1], i)]
               expLines == [j \in 1..Len(S) |->
                               Printed("image", "", S[j][1], 0,
                                       ExtractImage(viewResp[repo].text[S[j][1]]), i)]
               vc       == OfOp(OfRepo(calls[c], i), "view")
               il       == OfKind(OfRepo(out[c], i), "image")
           IN  /\ vc # <<>> => IsPrefix(vc, expCalls)
               /\ il # <<>> => IsPrefix(il, expLines)
               /\ Len(vc) - Len(il) \in {0, 1}
               /\ Finished(c, i) => vc = expCalls /\ il = expLines
    \* the loop over the supported set stops early only when a view call fails
    /\ /\ pc[c] = "crashed"
       /\ out[c] # <<>>
       /\ Last(out[c]).idx = ri[c]
       /\ Last(out[c]).kind \in {"docker_images", "image"}
       => /\ Last(calls[c]).op = "view"
          /\ ~viewResp[Repo(c)].ok

\* C6: with the doc toggle on, for each repository and each release of its
\* supported set, in order, the driver invokes view-release with that
\* repository and that tag and prints the tag with the extracted image, in
\* both copies of the script.
C6_DocInvokesViewInBothCopies ==
    args.doc => \A c \in Copies : DocInvokesView(c)

NonDecreasing(s) == \A a, b \in DOMAIN s : a < b => s[a].idx <= s[b].idx

\* C7: repositories are processed one at a time in the order given, and once
\* a step of repository i fails nothing is invoked or printed for a later
\* repository, while what was printed before stays on standard output.
C7_FailFastInOrder ==
    /\ [](\A c \in Copies :
              /\ NonDecreasing(calls[c]) /\ NonDecreasing(out[c])
              /\ \A k \in DOMAIN calls[c] :
                     calls[c][k].op # "which" =>
                         calls[c][k].repo = args.repos[calls[c][k].idx]
              /\ LET lists == OfOp(calls[c], "list")
                 IN  \A j \in DOMAIN lists : lists[j].idx = j
              /\ failed[c] # 0 =>
                     /\ pc[c] = "crashed" /\ ri[c] = failed[c] /\ exc[c] # ""
                     /\ \A k \in DOMAIN calls[c] : calls[c][k].idx <= failed[c]
                     /\ \A k \in DOMAIN out[c] : out[c][k].idx <= failed[c])
    /\ [][\A c \in Copies :
              /\ IsPrefix(out[c], out'[c]) /\ IsPrefix(calls[c], calls'[c])
              /\ pc[c] = "crashed" =>
                     /\ pc'[c] = "crashed"
                     /\ out'[c] = out[c] /\ calls'[c] = calls[c]]_vars

C7_Witness ==
    \E c \in Copies :
        /\ Len(args.repos) >= 2
        /\ failed[c] = 1 /\ pc[c] = "crashed"
        /\ exc[c] = "CalledProcessError"
        /\ Last(calls[c]).op = "view"
        /\ OfKind(out[c], "version") # <<>>
        /\ OfRepo(calls[c], 2) = <<>> /\ OfRepo(out[c], 2) = <<>>

\* C8: the availability check runs exactly once, before any list or view
\* invocation; without the tool the run prints a diagnostic and ends with a
\* non-zero status, having invoked no collaborator and printed nothing else;
\* with the tool, a run in which no step fails processes every repository
\* and exits 0.
C8_CheckOnceUpFront ==
    \A c \in Copies :
        LET nWhich == Len(OfOp(calls[c], "which"))
        IN  /\ nWhich <= 1
            /\ calls[c] # <<>> => calls[c][1].op = "which"
            /\ pc[c] # "check_gh" => nWhich = 1
            /\ pc[c] = "exit1" => ~gh
            /\ ~gh /\ pc[c] # "check_gh" =>
                   /\ pc[c] = "exit1"
                   /\ Len(calls[c]) = 1
                   /\ Len(out[c]) >= 1
                   /\ \A k \in DOMAIN out[c] :
                          out[c][k].kind \in {"error_not_in_path", "error_please_install"}
            /\ gh /\ Terminated(c) /\ failed[c] = 0 =>
                   /\ pc[c] = "exit0"
                   /\ \A i \in 1..Len(args.repos) :
                          /\ Len(OfOp(OfRepo(calls[c], i), "list")) = 1
                          /\ Len(OfKind(OfRepo(out[c], i), "supported_versions_of")) = 1
                          /\ Len(OfKind(OfRepo(out[c], i), "blank")) = 1
            /\ pc[c] = "exit0" => failed[c] = 0 /\ exc[c] = ""

C8_Witness ==
    /\ ~gh
    /\ Len(args.repos) >= 2
    /\ \A c \in Copies :
           /\ pc[c] = "exit1"
           /\ calls[c] = <<Call("which", "gh", NoTag, 0)>>
           /\ Len(out[c]) = 2

\* C10: the two copies are behaviourally identical: on the same command line,
\* clock and answers of gh they make the same invocations, print the same
\* output and end in the same outcome.
C10_CopiesBehaveAlike ==
    (\A c \in Copies : Terminated(c)) =>
        /\ calls["contrib"] = calls["release_tools"]
        /\ out["contrib"] = out["release_tools"]
        /\ pc["contrib"] = pc["release_tools"]

====
